---- MODULE Spec2Model ----
(***************************************************************************)
(* Model of argonOneUpLidMonitor (src/src/argonOneUpLidMonitor.cxx): the   *)
(* lid monitor loop, the configuration reader and the signal handler.      *)
(*                                                                         *)
(* Time is the steady clock, counted in ticks of 1/TicksPerSecond second.  *)
(* A text line is a sequence of one-character strings.                     *)
(***************************************************************************)
EXTENDS Integers, Sequences, FiniteSets, TLC

\* ---------------------------------------------------------------- bounds
TicksPerSecond == 1      \* clock resolution of the model
MaxClock == 6            \* last clock reading explored, in ticks
MaxJitter == 1           \* ticks a timed-out wait may overshoot the poll interval
MaxQueue == 2            \* edge events the kernel holds for the line
ULongBits == 4           \* width of unsigned long and of the seconds rep
StartClock == 1          \* steady clock reading when the program starts

\* ------------------------------------------------------ program constants
PollInterval == 1        \* wait_edge_events(1s)

PollTicks == PollInterval * TicksPerSecond
ULongMax == 2^ULongBits - 1
RepMax == 2^(ULongBits - 1) - 1

\* ------------------------------------------------------------- characters
Digits == <<"0", "1", "2", "3", "4", "5", "6", "7", "8", "9">>

isSpace(c) == c \in {" ", "\t", "\n", "\r"}

isDigit(c) == \E i \in 1..Len(Digits) : Digits[i] = c

digitValue(c) == (CHOOSE i \in 1..Len(Digits) : Digits[i] = c) - 1

Key == <<"l", "i", "d", "s", "h", "u", "t", "d", "o", "w", "n", "s", "e", "c", "s">>

\* ------------------------------------------------------------------- trim
trim(str) ==
    LET nonSpace == {i \in 1..Len(str) : ~isSpace(str[i])}
    IN  IF nonSpace = {}
        THEN << >>
        ELSE LET start == CHOOSE i \in nonSpace : \A j \in nonSpace : i <= j
                 last == CHOOSE i \in nonSpace : \A j \in nonSpace : j <= i
             IN  SubSeq(str, start, last)

\* --------------------------------------------------------- regex_search
\* first position at or after p that holds no whitespace (Len+1 at the end)
RECURSIVE skipSpaces(_, _)
skipSpaces(line, p) ==
    IF p <= Len(line) /\ isSpace(line[p]) THEN skipSpaces(line, p + 1) ELSE p

\* end of the longest run of digits that starts at p
RECURSIVE digitRunEnd(_, _)
digitRunEnd(line, p) ==
    IF p + 1 <= Len(line) /\ isDigit(line[p + 1]) THEN digitRunEnd(line, p + 1) ELSE p

\* the pattern \s*lidshutdownsecs\s*=\s*(\d+) tried at start position p
matchAt(line, p) ==
    LET k == skipSpaces(line, p)
        e == skipSpaces(line, k + Len(Key))
        d == skipSpaces(line, e + 1)
    IN  IF /\ k + Len(Key) - 1 <= Len(line)
           /\ SubSeq(line, k, k + Len(Key) - 1) = Key
           /\ e <= Len(line)
           /\ line[e] = "="
           /\ d <= Len(line)
           /\ isDigit(line[d])
        THEN [matched |-> TRUE, capture |-> SubSeq(line, d, digitRunEnd(line, d))]
        ELSE [matched |-> FALSE, capture |-> << >>]

regex_search(line) ==
    LET starts == {p \in 1..Len(line) : matchAt(line, p).matched}
    IN  IF starts = {}
        THEN [matched |-> FALSE, capture |-> << >>]
        ELSE matchAt(line, CHOOSE p \in starts : \A q \in starts : p <= q)

\* ------------------------------------------------------------------ stoul
\* the value of the digits, saturating at ULongMax + 1 once it is out of range
RECURSIVE accumulate(_, _, _)
accumulate(digits, i, acc) ==
    IF i > Len(digits)
    THEN acc
    ELSE LET next == acc * 10 + digitValue(digits[i])
         IN  accumulate(digits, i + 1, IF next > ULongMax THEN ULongMax + 1 ELSE next)

stoul(digits) ==
    LET v == accumulate(digits, 1, 0)
    IN  IF v > ULongMax
        THEN [threw |-> TRUE, value |-> 0]
        ELSE [threw |-> FALSE, value |-> v]

\* std::chrono::seconds(timeout): unsigned long converted to the signed rep
secondsOf(timeout) ==
    IF timeout > RepMax THEN timeout - 2^ULongBits ELSE timeout

\* ------------------------------------------------------ getShutdownTimeout
RECURSIVE readLines(_, _)
readLines(lines, i) ==
    IF i > Len(lines)
    THEN 0
    ELSE LET line == trim(lines[i])
         IN  IF (Len(line) > 0 /\ line[1] = "#") \/ line = << >>
             THEN readLines(lines, i + 1)
             ELSE LET matches == regex_search(line)
                  IN  IF matches.matched
                      THEN LET timeout == stoul(matches.capture)
                           IN  IF timeout.threw THEN 0 ELSE secondsOf(timeout.value)
                      ELSE readLines(lines, i + 1)

getShutdownTimeout(file) ==
    IF file.exists /\ file.opens THEN readLines(file.lines, 1) ELSE 0

\* ------------------------------------------------------ configuration files
Line1 == Key \o <<"=", "1">>
Line2 == Key \o <<"=", "2">>
Line2Spaced == <<" ", " ">> \o Key \o <<" ", "=", " ", "2", " ", " ">>
Line1Tabbed == Key \o <<"\t", "=", "\t", "1">>
Line0 == Key \o <<"=", "0">>
Line8 == Key \o <<"=", "8">>
Line16 == Key \o <<"=", "1", "6">>
LineNoDigits == Key \o <<"=">>
LineComment == <<"#", " ">> \o Key \o <<"=", "5">>
LineIndentedComment == <<" ", "#">> \o Key \o <<"=", "2">>
LineBlank == <<" ", "\t">>
LinePrefixed == <<"x", " ">> \o Key \o <<"=", "2", "x">>

File(lines) == [exists |-> TRUE, opens |-> TRUE, lines |-> lines]

NoFile == [exists |-> FALSE, opens |-> FALSE, lines |-> << >>]

ConfigFiles ==
    { NoFile,
      [exists |-> TRUE, opens |-> FALSE, lines |-> <<Line2>>],
      File(<<LineComment>>),
      File(<<Line2Spaced>>),
      File(<<LineBlank, LineIndentedComment, Line1Tabbed, Line2>>),
      File(<<LineNoDigits, LinePrefixed, Line1>>),
      File(<<Line0, Line2>>),
      File(<<Line8>>),
      File(<<Line16, Line2>>) }

\* what getShutdownTimeout returns for each file of the model
fileTimeout == [file \in ConfigFiles |-> getShutdownTimeout(file)]

\* ------------------------------------------------------------------ state
EdgeTypes == {"RISING_EDGE", "FALLING_EDGE", "OTHER"}
Signals == {"SIGINT", "SIGTERM"}

VARIABLES
    pc,               \* position of main/lidMonitor
    s_run,            \* the run flag
    shutdownTimeout,  \* seconds
    lidClosedTime,    \* steady clock reading, ticks
    action,           \* LidAction
    shutdownCalls,    \* calls of ::system(s_shutdownCommand)
    exception,        \* the exception thrown out of lidMonitor, if any
    errorLogged,      \* the exception main logged as "Error:..."
    waited,           \* ticks spent in the current wait_edge_events
    clock,            \* steady clock, ticks
    events,           \* edge events held by the kernel for the line
    lineValue,        \* level of the lid line
    configRead,       \* /etc/argononeupd.conf as getShutdownTimeout last found it
    \* history variables: what has happened, not read by the program
    closedAt,         \* clock when the latest CLOSED event was processed, or -1
    staleDeadline,    \* deadline of the latest closed interval that an
                      \* OPENED event ended before it was due, or -1
    edgeSeen,         \* an edge event has arrived since the line was requested
    loadedAt          \* clock when getShutdownTimeout last ran, or -1

vars == <<pc, s_run, shutdownTimeout, lidClosedTime, action, shutdownCalls,
          exception, errorLogged, waited, clock, events, lineValue, configRead,
          closedAt, staleDeadline, edgeSeen, loadedAt>>

progVars == <<pc, shutdownTimeout, lidClosedTime, action, shutdownCalls,
              exception, errorLogged, waited>>

histVars == <<closedAt, staleDeadline, loadedAt>>

\* lines 127-140: the switch over the edge type
eventTypeToLidAction_Swapped(eventType) ==
    CASE eventType = "RISING_EDGE" -> "CLOSED"
      [] eventType = "FALLING_EDGE" -> "OPENED"
      [] OTHER -> "UNKNOWN"

eventTypeToLidAction(eventType) ==
    CASE eventType = "RISING_EDGE" -> "OPENED"
      [] eventType = "FALLING_EDGE" -> "CLOSED"
      [] OTHER -> "UNKNOWN"

\* lines 256-268: SIGINT and SIGTERM clear the flag
signalHandler_Toggle(signalNumber, run) ==
    IF signalNumber \in {"SIGINT", "SIGTERM"} THEN 1 - run ELSE run

signalHandler(signalNumber, run) ==
    IF signalNumber \in {"SIGINT", "SIGTERM"} THEN 0 ELSE run

\* line 424: while (s_run)
loopContinues_Inverted(run) == run = 0

loopContinues_Always(run) == TRUE

loopContinues(run) == run # 0

\* lines 438-442: a CLOSED event stamps the time, any other leaves it
closedTimeOnEvent_FirstOnly(newAction, now, old) ==
    IF newAction = "CLOSED" /\ old = 0 THEN now ELSE old

closedTimeOnEvent(newAction, now, old) ==
    IF newAction = "CLOSED" THEN now ELSE old

\* line 429: read_edge_events(buffer, 1) takes the oldest event
afterRead_Drain(queue) == << >>

afterRead(queue) == Tail(queue)

\* line 438: action == LidAction::CLOSED reloads the timeout
reloadsOn_Never(newAction) == FALSE

reloadsOn_Any(newAction) == TRUE

reloadsOn(newAction) == newAction = "CLOSED"

\* line 445: action == LidAction::CLOSED
lidIsClosed_NotOpened(act) == act # "OPENED"

lidIsClosed_Any(act) == TRUE

lidIsClosed(act) == act = "CLOSED"

\* line 445: shutdownTimeout > 0s
timeoutEnabled_AllowsZero(timeout) == timeout >= 0

timeoutEnabled(timeout) == timeout > 0

\* line 448: now - lidClosedTime >= shutdownTimeout
timeoutReached_Strict(now, closedTime, timeout) ==
    now - closedTime > timeout * TicksPerSecond

timeoutReached(now, closedTime, timeout) ==
    now - closedTime >= timeout * TicksPerSecond

\* line 457: break, after which lidMonitor returns and main logs "exiting"
afterShutdown_NoBreak == "loop"

afterShutdown == "exit"

Init ==
    /\ pc = "main"
    /\ s_run = 1
    /\ shutdownTimeout = 0
    /\ lidClosedTime = 0
    /\ action = "UNKNOWN"
    /\ shutdownCalls = 0
    /\ exception = "none"
    /\ errorLogged = "none"
    /\ waited = 0
    /\ clock = StartClock
    /\ events = << >>
    /\ lineValue \in {"ACTIVE", "INACTIVE"}
    /\ configRead = NoFile
    /\ closedAt = -1
    /\ staleDeadline = -1
    /\ edgeSeen = FALSE
    /\ loadedAt = -1

\* ---------------------------------------------------------------- program
\* lidMonitor, lines 405-407: the locals
LidMonitorEntry ==
    /\ pc = "main"
    /\ \E file \in ConfigFiles :
           /\ configRead' = file
           /\ shutdownTimeout' = fileTimeout[file]
    /\ lidClosedTime' = 0
    /\ action' = "UNKNOWN"
    /\ pc' = "acquire"
    /\ loadedAt' = clock
    /\ UNCHANGED <<s_run, shutdownCalls, exception, errorLogged, waited, clock,
                   events, lineValue, closedAt, staleDeadline, edgeSeen>>

\* lines 412-422: the chip is opened and the line requested
AcquireLine ==
    /\ pc = "acquire"
    /\ pc' = "loop"
    /\ UNCHANGED <<s_run, shutdownTimeout, lidClosedTime, action, shutdownCalls,
                   exception, errorLogged, waited, clock, events, lineValue,
                   configRead, histVars, edgeSeen>>

\* lines 412-422: gpiod::chip or do_request throws
AcquireFails_Swallowed ==
    /\ pc = "acquire"
    /\ exception' = "acquire"
    /\ pc' = "loop"
    /\ UNCHANGED <<s_run, shutdownTimeout, lidClosedTime, action, shutdownCalls,
                   errorLogged, waited, clock, events, lineValue, configRead,
                   histVars, edgeSeen>>

AcquireFails ==
    /\ pc = "acquire"
    /\ exception' = "acquire"
    /\ pc' = "caught"
    /\ UNCHANGED <<s_run, shutdownTimeout, lidClosedTime, action, shutdownCalls,
                   errorLogged, waited, clock, events, lineValue, configRead,
                   histVars, edgeSeen>>

\* line 424: while (s_run); on exit lidMonitor returns and main logs "exiting"
LoopTest ==
    /\ pc = "loop"
    /\ IF loopContinues(s_run)
       THEN pc' = "wait" /\ waited' = 0
       ELSE pc' = "exit" /\ UNCHANGED waited
    /\ UNCHANGED <<s_run, shutdownTimeout, lidClosedTime, action, shutdownCalls,
                   exception, errorLogged, clock, events, lineValue, configRead,
                   histVars, edgeSeen>>

\* lines 426-444: the wait returns true, one event is read and processed
WaitEvent ==
    /\ pc = "wait"
    /\ events # << >>
    /\ LET newAction == eventTypeToLidAction(Head(events))
       IN  /\ action' = newAction
           /\ lidClosedTime' = closedTimeOnEvent(newAction, clock, lidClosedTime)
           /\ IF reloadsOn(newAction)
              THEN /\ \E file \in ConfigFiles :
                          /\ configRead' = file
                          /\ shutdownTimeout' = fileTimeout[file]
                   /\ loadedAt' = clock
              ELSE UNCHANGED <<shutdownTimeout, configRead, loadedAt>>
           /\ closedAt' = IF newAction = "CLOSED" THEN clock ELSE closedAt
           /\ staleDeadline' =
                 IF /\ newAction = "OPENED"
                    /\ action = "CLOSED"
                    /\ shutdownTimeout > 0
                    /\ clock < closedAt + shutdownTimeout * TicksPerSecond
                 THEN closedAt + shutdownTimeout * TicksPerSecond
                 ELSE staleDeadline
    /\ events' = afterRead(events)
    /\ pc' = "loop"
    /\ UNCHANGED <<s_run, shutdownCalls, exception, errorLogged, waited, clock,
                   lineValue, edgeSeen>>

\* lines 426, 445-459 with the run flag consulted again after the wait
WaitTimeout_ChecksRun ==
    /\ pc = "wait"
    /\ events = << >>
    /\ waited >= PollTicks
    /\ IF /\ s_run # 0
          /\ lidIsClosed(action)
          /\ timeoutEnabled(shutdownTimeout)
          /\ timeoutReached(clock, lidClosedTime, shutdownTimeout)
       THEN /\ shutdownCalls' = shutdownCalls + 1
            /\ pc' = afterShutdown
       ELSE /\ pc' = "loop"
            /\ UNCHANGED shutdownCalls
    /\ UNCHANGED <<s_run, shutdownTimeout, lidClosedTime, action, exception,
                   errorLogged, waited, clock, events, lineValue, configRead,
                   histVars, edgeSeen>>

\* lines 426, 445-459: the wait returns false after the poll interval
WaitTimeout ==
    /\ pc = "wait"
    /\ events = << >>
    /\ waited >= PollTicks
    /\ IF /\ lidIsClosed(action)
          /\ timeoutEnabled(shutdownTimeout)
          /\ timeoutReached(clock, lidClosedTime, shutdownTimeout)
       THEN /\ shutdownCalls' = shutdownCalls + 1
            /\ pc' = afterShutdown
       ELSE /\ pc' = "loop"
            /\ UNCHANGED shutdownCalls
    /\ UNCHANGED <<s_run, shutdownTimeout, lidClosedTime, action, exception,
                   errorLogged, waited, clock, events, lineValue, configRead,
                   histVars, edgeSeen>>

\* lines 426, 429: wait_edge_events or read_edge_events throws
WaitFails ==
    /\ pc = "wait"
    /\ exception' = "wait"
    /\ pc' = "caught"
    /\ UNCHANGED <<s_run, shutdownTimeout, lidClosedTime, action, shutdownCalls,
                   errorLogged, waited, clock, events, lineValue, configRead,
                   histVars, edgeSeen>>

\* main, lines 501-506: the exception is logged, then "exiting"
CatchInMain ==
    /\ pc = "caught"
    /\ errorLogged' = exception
    /\ pc' = "exit"
    /\ UNCHANGED <<s_run, shutdownTimeout, lidClosedTime, action, shutdownCalls,
                   exception, waited, clock, events, lineValue, configRead,
                   histVars, edgeSeen>>

\* ------------------------------------------------------------ environment
\* SIGINT or SIGTERM is delivered
Signal ==
    /\ pc # "exit"
    /\ \E signalNumber \in Signals : s_run' = signalHandler(signalNumber, s_run)
    /\ s_run' # s_run
    /\ UNCHANGED <<progVars, clock, events, lineValue, configRead, histVars, edgeSeen>>

\* time passes while the program is in wait_edge_events
Tick ==
    /\ pc = "wait"
    /\ waited < PollTicks + MaxJitter
    /\ clock < MaxClock
    /\ clock' = clock + 1
    /\ waited' = waited + 1
    /\ UNCHANGED <<pc, s_run, shutdownTimeout, lidClosedTime, action,
                   shutdownCalls, exception, errorLogged, events, lineValue,
                   configRead, histVars, edgeSeen>>

\* the kernel queues an event for the requested line, dropping the oldest
\* one when its buffer is full
Queue(q, e) == Append(IF Len(q) >= MaxQueue THEN Tail(q) ELSE q, e)

\* the lid moves while the line is requested: the level changes and the
\* kernel queues the edge
LidMoves ==
    /\ pc \in {"loop", "wait"}
    /\ lineValue' = IF lineValue = "ACTIVE" THEN "INACTIVE" ELSE "ACTIVE"
    /\ events' = Queue(events, IF lineValue' = "ACTIVE" THEN "RISING_EDGE"
                                                        ELSE "FALLING_EDGE")
    /\ edgeSeen' = TRUE
    /\ UNCHANGED <<progVars, s_run, clock, configRead, histVars>>

\* an event arrives whose type is neither edge
StrayEvent ==
    /\ pc \in {"loop", "wait"}
    /\ events' = Queue(events, "OTHER")
    /\ edgeSeen' = TRUE
    /\ UNCHANGED <<progVars, s_run, clock, lineValue, configRead, histVars>>

Next ==
    \/ LidMonitorEntry
    \/ AcquireLine
    \/ AcquireFails
    \/ LoopTest
    \/ WaitEvent
    \/ WaitTimeout
    \/ WaitFails
    \/ CatchInMain
    \/ Signal
    \/ Tick
    \/ LidMoves
    \/ StrayEvent

Spec == Init /\ [][Next]_vars

\* ------------------------------------------------ the initial level read
\* The header declares a classifier of line levels next to the classifier
\* of edges (argonOneUpLidMonitor.h, lines 70-71); its body is in no source
\* file, and lidMonitor never reads the level. The definitions below follow
\* the written description of the daemon: the level is read once after the
\* line is requested, ACTIVE is an open lid and INACTIVE a closed one, and
\* a lid found closed with a timeout set starts the timer. The header's
\* LidState::OPEN is the loop's LidAction::OPENED.
LineValues == {"ACTIVE", "INACTIVE", "OTHER"}

valueTypeToLidState_Inverted(valueType) ==
    CASE valueType = "ACTIVE" -> "CLOSED"
      [] valueType = "INACTIVE" -> "OPENED"
      [] OTHER -> "UNKNOWN"

valueTypeToLidState(valueType) ==
    CASE valueType = "ACTIVE" -> "OPENED"
      [] valueType = "INACTIVE" -> "CLOSED"
      [] OTHER -> "UNKNOWN"

\* the line is requested and its level read; the value read is the level of
\* the line, or a value that is neither level
ReadInitialLevel ==
    /\ pc = "acquire"
    /\ \E valueType \in {lineValue, "OTHER"} :
           LET state == valueTypeToLidState(valueType)
           IN  /\ action' = state
               /\ IF state = "CLOSED" /\ shutdownTimeout > 0
                  THEN lidClosedTime' = clock /\ closedAt' = clock
                  ELSE UNCHANGED <<lidClosedTime, closedAt>>
    /\ pc' = "loop"
    /\ UNCHANGED <<s_run, shutdownTimeout, shutdownCalls, exception,
                   errorLogged, waited, clock, events, lineValue, configRead,
                   staleDeadline, loadedAt, edgeSeen>>

NextLevel ==
    \/ LidMonitorEntry
    \/ ReadInitialLevel
    \/ AcquireFails
    \/ LoopTest
    \/ WaitEvent
    \/ WaitTimeout
    \/ WaitFails
    \/ CatchInMain
    \/ Signal
    \/ Tick
    \/ LidMoves
    \/ StrayEvent

SpecLevel == Init /\ [][NextLevel]_vars

TypeOK ==
    /\ pc \in {"main", "acquire", "loop", "wait", "caught", "exit"}
    /\ s_run \in {0, 1}
    /\ shutdownTimeout \in -(RepMax + 1)..RepMax
    /\ lidClosedTime \in 0..MaxClock
    /\ action \in {"UNKNOWN", "OPENED", "CLOSED"}
    /\ shutdownCalls \in Nat
    /\ exception \in {"none", "acquire", "wait"}
    /\ errorLogged \in {"none", "acquire", "wait"}
    /\ waited \in 0..(PollTicks + MaxJitter)
    /\ clock \in StartClock..MaxClock
    /\ Len(events) <= MaxQueue
    /\ lineValue \in {"ACTIVE", "INACTIVE"}
    /\ configRead \in ConfigFiles


\* ------------------------------------------------- the configuration format
\* What the format of the file says a file sets, read off the text without
\* the reader's algorithm.
Blank(line) == \A i \in 1..Len(line) : isSpace(line[i])

Comment(line) ==
    \E i \in 1..Len(line) :
        line[i] = "#" /\ \A j \in 1..(i - 1) : isSpace(line[j])

KeyAt(line, k) ==
    /\ k + Len(Key) - 1 <= Len(line)
    /\ \A j \in 1..Len(Key) : line[k + j - 1] = Key[j]

\* the key at k, then "=" with only whitespace around it, then a digit at d
SettingAt(line, k, d) ==
    /\ d > k + Len(Key)
    /\ isDigit(line[d])
    /\ \E e \in (k + Len(Key))..(d - 1) :
          /\ line[e] = "="
          /\ \A j \in (k + Len(Key))..(d - 1) : j # e => isSpace(line[j])

Settings(line) ==
    {t \in {k \in 1..Len(line) : KeyAt(line, k)} \X (1..Len(line)) :
        SettingAt(line, t[1], t[2])}

FirstSetting(line) ==
    CHOOSE t \in Settings(line) : \A u \in Settings(line) : t[1] <= u[1]

\* the last digit of the number that starts at d
NumberEnd(line, d) ==
    CHOOSE z \in d..Len(line) :
        /\ \A j \in d..z : isDigit(line[j])
        /\ z = Len(line) \/ ~isDigit(line[z + 1])

Number(line, d, z) ==
    LET pow[n \in 0..(z - d)] == IF n = 0 THEN 1 ELSE 10 * pow[n - 1]
        sum[j \in (d - 1)..z] ==
            IF j = d - 1 THEN 0 ELSE sum[j - 1] + digitValue(line[j]) * pow[z - j]
    IN  sum[z]

Effective(line) == ~Blank(line) /\ ~Comment(line) /\ Settings(line) # {}

\* the number the first effective line of the file gives, or -1 without one
Configured(file) ==
    LET eff == {i \in 1..Len(file.lines) : Effective(file.lines[i])}
    IN  IF ~file.exists \/ ~file.opens \/ eff = {}
        THEN -1
        ELSE LET i == CHOOSE i \in eff : \A j \in eff : i <= j
                 d == FirstSetting(file.lines[i])[2]
             IN  Number(file.lines[i], d, NumberEnd(file.lines[i], d))

\* the timeout the file asks for: 0 without a setting or when the number
\* does not fit an unsigned long
Expected(file) ==
    LET n == Configured(file)
    IN  IF n < 0 \/ n > ULongMax THEN 0 ELSE n

fileExpected == [file \in ConfigFiles |-> Expected(file)]

LoadedTimeout == fileTimeout[configRead]

\* --------------------------------------------------------- kinds of step
\* the wait timed out: lines 445-459 ran
TimeoutStep ==
    /\ pc = "wait"
    /\ pc' \in {"loop", "exit"}
    /\ events = << >>
    /\ events' = events

\* the wait returned an event: lines 427-444 ran
EventStep ==
    /\ pc = "wait"
    /\ pc' \in {"loop", "exit"}
    /\ events # << >>
    /\ Len(events') < Len(events)

Fires == shutdownCalls' # shutdownCalls

\* ------------------------------------------------------------------ claims

\* C1: with a timeout T > 0 loaded when a CLOSED event was processed at t0
\* and no event since, a wait-timeout tick invokes the shutdown action if
\* and only if now - t0 >= T, and that invocation is the only one.
C1_FiresAtFirstDueTick ==
    [][ (/\ TimeoutStep
         /\ action = "CLOSED"
         /\ closedAt >= 0
         /\ LoadedTimeout > 0)
        => IF clock - closedAt >= LoadedTimeout * TicksPerSecond
           THEN shutdownCalls = 0 /\ shutdownCalls' = 1
           ELSE shutdownCalls' = shutdownCalls ]_vars

\* the shutdown was invoked at the tick exactly T after the CLOSED event
C1_Witness ==
    /\ shutdownCalls = 1
    /\ s_run = 1
    /\ action = "CLOSED"
    /\ LoadedTimeout = 2
    /\ clock - closedAt = LoadedTimeout * TicksPerSecond

\* C2: while the timeout in effect is 0 (configured as 0, file absent or
\* unreadable, no matching line, number out of range) no step invokes the
\* shutdown action, and every event and every tick leaves the loop running.
C2_ZeroTimeoutNeverFires ==
    [][ /\ Fires => shutdownTimeout # 0
        /\ (shutdownTimeout = 0 /\ (TimeoutStep \/ EventStep))
              => (pc' = "loop" /\ ~Fires)
        /\ (configRead' # configRead /\ fileExpected[configRead'] = 0)
              => shutdownTimeout' = 0 ]_vars

\* the file is absent, the lid has been closed for three ticks and the
\* loop runs on
C2_Witness ==
    /\ pc = "loop"
    /\ action = "CLOSED"
    /\ configRead = NoFile
    /\ shutdownTimeout = 0
    /\ clock - closedAt >= 3
    /\ shutdownCalls = 0

\* C3: after a closed interval that an OPENED event ended before its
\* deadline, and a CLOSED event processed at t1 that loaded T', no tick
\* before t1 + T' invokes the shutdown action.
C3_RecloseRestartsTimer ==
    [][ (/\ TimeoutStep
         /\ staleDeadline >= 0
         /\ action = "CLOSED"
         /\ clock - closedAt < LoadedTimeout * TicksPerSecond)
        => ~Fires ]_vars

\* a tick after the re-close, past the old deadline and before the new one,
\* did not invoke the shutdown action
C3_Witness ==
    /\ pc = "loop"
    /\ action = "CLOSED"
    /\ shutdownCalls = 0
    /\ staleDeadline >= 0
    /\ closedAt < clock
    /\ staleDeadline <= clock
    /\ clock - closedAt < LoadedTimeout * TicksPerSecond

\* C4: once s_run is 0 no further wait is begun, the loop test ends the
\* loop, and the shutdown action is invoked only if the closed time has
\* reached the timeout.
C4_CancelEndsLoop ==
    [][ s_run = 0
        => /\ pc' = "wait" => pc = "wait"
           /\ (pc = "loop" /\ pc' # pc) => (pc' = "exit" /\ ~Fires)
           /\ Fires => (/\ closedAt >= 0
                        /\ LoadedTimeout > 0
                        /\ clock - closedAt >= LoadedTimeout * TicksPerSecond) ]_vars

\* the signal came while the lid was closed and the timeout not reached;
\* the loop ended without the shutdown action
C4_Witness ==
    /\ pc = "exit"
    /\ s_run = 0
    /\ exception = "none"
    /\ action = "CLOSED"
    /\ shutdownTimeout > 0
    /\ clock - lidClosedTime < shutdownTimeout * TicksPerSecond
    /\ shutdownCalls = 0

\* C5: when the lid is closed as the line is requested, no edge event has
\* arrived and the timeout is T > 0, the state is CLOSED with the timestamp
\* of the start, and a tick at or after start + T has invoked the shutdown
\* action.
C5_ClosedAtStartArmsTimer ==
    (/\ pc \in {"loop", "wait"}
     /\ lineValue = "INACTIVE"
     /\ ~edgeSeen
     /\ shutdownTimeout > 0)
    => /\ action = "CLOSED"
       /\ lidClosedTime = StartClock
       /\ ~(pc = "loop" /\ clock - StartClock >= shutdownTimeout * TicksPerSecond)

\* C6: the shutdown action is invoked only by a step in which the wait
\* timed out with no event, the state is CLOSED, the timeout is positive
\* and now - lidClosedTime >= shutdownTimeout.
C6_FiresOnlyWhenDue ==
    [][ Fires
        => /\ TimeoutStep
           /\ waited >= PollTicks
           /\ action = "CLOSED"
           /\ shutdownTimeout > 0
           /\ clock - lidClosedTime >= shutdownTimeout * TicksPerSecond
           /\ UNCHANGED <<action, shutdownTimeout, lidClosedTime, clock>> ]_vars

\* the shutdown was invoked later than the first possible instant
C6_Witness ==
    /\ shutdownCalls = 1
    /\ action = "CLOSED"
    /\ events = << >>
    /\ shutdownTimeout = 1
    /\ clock - lidClosedTime > shutdownTimeout * TicksPerSecond

\* C7: the shutdown action is invoked at most once, and once it has been
\* invoked the program is past the loop.
C7_FiresOnceThenExits ==
    /\ shutdownCalls <= 1
    /\ shutdownCalls = 1 => pc = "exit"

\* the shutdown was invoked once, after an overshooting wait, and the
\* program ended
C7_Witness ==
    /\ shutdownCalls = 1
    /\ pc = "exit"
    /\ waited > PollTicks

\* C8: when acquiring the line fails the exception reaches main, which
\* logs it and exits: the loop is never entered, no time is spent waiting,
\* no event is processed and the shutdown action is not invoked.
C8_AcquireFailureIsFatal ==
    exception = "acquire"
    => /\ pc \in {"caught", "exit"}
       /\ pc = "exit" => errorLogged = "acquire"
       /\ shutdownCalls = 0
       /\ action = "UNKNOWN"
       /\ closedAt = -1
       /\ waited = 0
       /\ clock = StartClock
       /\ ~edgeSeen

\* the failure was logged and the program ended
C8_Witness ==
    /\ pc = "exit"
    /\ exception = "acquire"
    /\ errorLogged = "acquire"

\* C9: the shutdown timeout is never negative.
C9_TimeoutNonNegative == shutdownTimeout >= 0

\* C10: the timeout is the number on the first line of the file that is
\* neither blank nor a comment and holds the setting, 0 without one.
C10_FirstSettingWins == shutdownTimeout = fileExpected[configRead]

\* The classes the edge kinds stand for, as a table.
LidClass ==
    [eventType \in EdgeTypes |->
        IF eventType = "RISING_EDGE" THEN "OPENED"
        ELSE IF eventType = "FALLING_EDGE" THEN "CLOSED"
        ELSE "UNKNOWN"]

\* C11: the edge classifier is total and pure: every event the loop consumes
\* leaves the lid state at OPENED for a rising edge, CLOSED for a falling
\* edge and UNKNOWN for anything else, and classifying touches neither the
\* run flag, the shutdown count nor the error state.
C11_ClassifierTotalAndPure ==
    [][EventStep =>
          /\ action' = LidClass[Head(events)]
          /\ action' \in {"OPENED", "CLOSED", "UNKNOWN"}
          /\ UNCHANGED <<s_run, shutdownCalls, exception, errorLogged,
                         lineValue, clock>>]_vars

\* a rising edge has been consumed after the lid had been closed for a while
C11_Witness ==
    /\ pc = "loop"
    /\ action = "OPENED"
    /\ closedAt >= StartClock
    /\ clock > closedAt

\* The classes the line levels stand for, as a table.
LevelClass ==
    [valueType \in LineValues |->
        IF valueType = "ACTIVE" THEN "OPENED"
        ELSE IF valueType = "INACTIVE" THEN "CLOSED"
        ELSE "UNKNOWN"]

\* C12: the level classifier returns OPEN for an active level, CLOSED for
\* an inactive level and UNKNOWN for anything else: the state the loop
\* starts with is the class of a value the read can return, and as long as
\* no edge has arrived a start state of OPENED or CLOSED is the class of
\* the level the line is at.
C12_LevelClassifier ==
    /\ \A valueType \in LineValues :
           valueTypeToLidState(valueType) = LevelClass[valueType]
    /\ (pc \in {"loop", "wait"} /\ ~edgeSeen) =>
           /\ action \in {LevelClass[lineValue], LevelClass["OTHER"]}
           /\ action = "CLOSED" => lineValue = "INACTIVE"
           /\ action = "OPENED" => lineValue = "ACTIVE"

\* the lid was closed when the daemon started and the level read said so
C12_Witness ==
    /\ pc = "wait"
    /\ ~edgeSeen
    /\ lineValue = "INACTIVE"
    /\ action = "CLOSED"
    /\ shutdownTimeout > 0
    /\ lidClosedTime = closedAt
    /\ closedAt >= StartClock

ClosedEventStep == EventStep /\ LidClass[Head(events)] = "CLOSED"

\* C13: every CLOSED event the loop processes reloads the timeout from the
\* configuration once and sets the closed timestamp to the current time;
\* every other step of the running daemon (an OPENED or UNKNOWN event, a
\* wait that times out, a signal, the passing of time) leaves the timeout
\* and the timestamp as they were and reads no configuration, so a change
\* of the file while the lid is closed shows only at the next CLOSED event.
C13_ReloadOnlyOnClosed ==
    [][/\ ClosedEventStep =>
              /\ lidClosedTime' = clock
              /\ loadedAt' = clock
              /\ shutdownTimeout' = fileTimeout[configRead']
       /\ (pc # "main" /\ ~ClosedEventStep) =>
              UNCHANGED <<shutdownTimeout, lidClosedTime, configRead, loadedAt>>
      ]_vars

\* a CLOSED event has been processed after an earlier one, and the reload
\* replaced the timeout the daemon started with
C13_Witness ==
    /\ pc = "loop"
    /\ action = "CLOSED"
    /\ lidClosedTime = clock
    /\ loadedAt = clock
    /\ clock > StartClock
    /\ shutdownTimeout > 0
    /\ shutdownTimeout = fileTimeout[configRead]

\* C14: once an OPENED or UNKNOWN event has been processed, the timestamp
\* of the earlier close is inert: a wait that times out while the state is
\* OPENED or UNKNOWN never invokes the shutdown command, however long ago
\* that timestamp lies, and the loop goes on; only a later CLOSED event
\* arms the timer again.
C14_StaleTimestampInert ==
    [][(TimeoutStep /\ action \in {"OPENED", "UNKNOWN"}) =>
          /\ ~Fires
          /\ pc' = "loop"
          /\ UNCHANGED <<shutdownTimeout, lidClosedTime, action>>]_vars

\* the lid was closed and opened again, the timeout has since run out on
\* the old timestamp, a wait has timed out after that and nothing fired
C14_Witness ==
    /\ pc = "loop"
    /\ action \in {"OPENED", "UNKNOWN"}
    /\ closedAt >= StartClock
    /\ lidClosedTime = closedAt
    /\ shutdownTimeout > 0
    /\ clock - lidClosedTime > shutdownTimeout * TicksPerSecond + PollTicks
    /\ events = << >>
    /\ waited >= PollTicks
    /\ shutdownCalls = 0

\* C15: events buffered for the line are consumed in the order the kernel
\* queued them, one per wait, none skipped or reordered by the loop: the
\* only steps that change the buffer are the kernel appending an event and
\* the loop removing exactly the oldest one, applying to it the whole event
\* logic (reclassify; on CLOSED reload and timestamp). A wait with events
\* pending never runs the timeout check, and the state changes at event
\* steps only, so the state a timeout check reads is the class of the last
\* event consumed.
C15_EventsConsumedInOrder ==
    [][/\ events' # events =>
              \/ /\ \E eventType \in EdgeTypes : events' = Queue(events, eventType)
                 /\ UNCHANGED progVars
              \/ /\ EventStep
                 /\ events' = Tail(events)
                 /\ action' = LidClass[Head(events)]
                 /\ LidClass[Head(events)] = "CLOSED" =>
                        lidClosedTime' = clock /\ loadedAt' = clock
       /\ (pc = "wait" /\ pc' \in {"loop", "exit"} /\ events # << >>) =>
              EventStep /\ ~Fires
       /\ (pc # "main" /\ action' # action) => EventStep
      ]_vars

\* a close and a reopen were buffered; the close has been consumed and the
\* reopen is still waiting
C15_Witness ==
    /\ pc = "loop"
    /\ action = "CLOSED"
    /\ lidClosedTime = clock
    /\ closedAt = clock
    /\ events = <<"RISING_EDGE">>
    /\ lineValue = "ACTIVE"

\* the loop of lidMonitor is left
LoopEnds == pc \in {"loop", "wait"} /\ pc' \notin {"loop", "wait"}

ExitAtTop == pc = "loop" /\ s_run = 0 /\ pc' = "exit" /\ ~Fires

ExitByShutdown == TimeoutStep /\ Fires /\ pc' = "exit"

ExitByException ==
    pc = "wait" /\ pc' = "caught" /\ exception' = "wait" /\ ~Fires

\* C16 as stated: the loop has exactly two exits, the run flag seen false at
\* the top of an iteration or the shutdown command invoked in the last
\* iteration; nothing that happens in the GPIO layer inside the body ends it.
C16_TwoExits ==
    [][LoopEnds => (ExitAtTop \/ ExitByShutdown)]_vars

\* C16 amended: the loop has exactly three exits: the run flag seen false
\* at the top of an iteration, the shutdown command invoked in the last
\* iteration, or a GPIO call in the body (the wait or the read) throwing,
\* which leaves lidMonitor for the handler in main; no event and no tick
\* ends it.
C16_ThreeExits ==
    [][LoopEnds => (ExitAtTop \/ ExitByShutdown \/ ExitByException)]_vars

\* the loop was left through the exception of a GPIO call: the run flag is
\* still set and nothing was shut down
C16_Witness ==
    /\ pc = "exit"
    /\ errorLogged = "wait"
    /\ s_run = 1
    /\ shutdownCalls = 0
    /\ edgeSeen

\* C17: the run flag starts set and only ever goes from set to clear: the
\* signal handler is its only writer, writes nothing but clear (a second
\* signal changes nothing), and touches no other state; no step of the loop
\* sets it back.
C17_RunFlagMonotonic ==
    /\ s_run = 1
    /\ [][/\ \A signalNumber \in Signals : signalHandler(signalNumber, s_run) = 0
          /\ s_run' # s_run =>
                 /\ s_run = 1
                 /\ s_run' = 0
                 /\ UNCHANGED <<progVars, clock, events, lineValue, configRead,
                                histVars, edgeSeen>>
         ]_vars

\* a signal was delivered while the loop was waiting with the lid closed
C17_Witness ==
    /\ s_run = 0
    /\ pc = "wait"
    /\ action = "CLOSED"
    /\ waited > 0

\* C18: the run flag is read at the top of an iteration only. An iteration
\* is entered only with the flag set, so the shutdown command is invoked
\* only in an iteration that began with the flag set; a signal that clears
\* the flag during the wait does not suppress the shutdown of that
\* iteration: when the wait times out with the lid closed and the timeout
\* reached, the command is invoked although the flag is already clear, and
\* a cleared flag ends the loop nowhere but at the top.
C18_RunFlagReadAtTopOnly ==
    [][/\ (pc = "loop" /\ pc' = "wait") => s_run = 1
       /\ (pc = "loop" /\ s_run = 0 /\ pc' # pc) => (pc' = "exit" /\ ~Fires)
       /\ Fires => pc = "wait"
       /\ (/\ TimeoutStep
           /\ s_run = 0
           /\ action = "CLOSED"
           /\ shutdownTimeout > 0
           /\ clock - lidClosedTime >= shutdownTimeout * TicksPerSecond) =>
              Fires
       /\ (pc = "wait" /\ s_run = 0 /\ pc' = "exit") => Fires
      ]_vars

\* the flag was cleared during the wait of the last iteration and the
\* shutdown command was invoked all the same
C18_Witness ==
    /\ pc = "exit"
    /\ shutdownCalls = 1
    /\ s_run = 0
    /\ errorLogged = "none"

\* C19: in every state of the running loop in which the lid state is
\* CLOSED, the closed timestamp is the time at which the most recent CLOSED
\* event was processed and the timeout is the value the configuration gave
\* when it was read at that same event; the timestamp the local starts with
\* is therefore never the one compared with the clock.
C19_ClosedStateIsCoherent ==
    action = "CLOSED" =>
        /\ pc \in {"loop", "wait", "caught", "exit"}
        /\ closedAt >= StartClock
        /\ closedAt <= clock
        /\ lidClosedTime = closedAt
        /\ loadedAt = closedAt
        /\ shutdownTimeout = fileTimeout[configRead]

\* the lid is closed, the timeout is set and the poll interval is over: the
\* next step compares the clock with the timestamp of the last CLOSED event
C19_Witness ==
    /\ pc = "wait"
    /\ action = "CLOSED"
    /\ events = << >>
    /\ waited >= PollTicks
    /\ shutdownTimeout > 0
    /\ lidClosedTime = closedAt
    /\ closedAt > StartClock
    /\ clock > closedAt

====
